---- MODULE Spec2Model ----
(***************************************************************************)
(* Model of dev_nb/nb_007.py: the LanguageModelLoader window scheduler,    *)
(* the dropout wrappers and their constructors, RNNCore's hidden state and  *)
(* RNNTrainer's learning-rate adjustment.                                   *)
(***************************************************************************)
EXTENDS Integers, Sequences, FiniteSets, TLC

VARIABLES
    \* the token stream handed to LanguageModelLoader and whether __init__ has run
    nums, lpc,
    \* LanguageModelLoader fields (nb_007.py:12-16)
    bs, bptt, backwards, data, first, i, iter, n,
    \* the generator objects made by __iter__ (their position in the body), the
    \* window yielded last (tick flips at every yield), and the traversal that has run undisturbed since it
    \* started (0: none) with the number of windows it has yielded
    pc, out, solo, cnt,
    \* RNNCore: its configuration, self.bs, self.hidden (has_hidden: the
    \* attribute exists), the number of forward calls made, what the last
    \* forward call saw and did, the states the last completed forward call
    \* produced, and whether reset() was called since
    core, core_bs, hidden, has_hidden, calls, last, prev, reset_since,
    \* RNNTrainer: its fields, the optimizer's lr and the lr configured before
    \* training, the outputs saved by on_loss_begin, the position in the batch,
    \* the number of batches begun, the window length of the last one and the
    \* loss on_backward_begin returned
    trainer, lr, lr0, saved, tphase, batches, last_len, ret,
    \* the outcome of the last constructor call
    built,
    \* EmbeddingDropout: the wrapped table's weight (one number per vocabulary
    \* row) and its value at construction, embed_p (in percent) with the
    \* training flag, the number of forward calls made and what the last one
    \* was given and returned
    emb_weight, emb_w0, emb_cfg, emb_calls, emb_last

loaderVars == <<nums, lpc, bs, bptt, backwards, data, first, i, iter, n, pc, out, solo, cnt>>
coreVars == <<core, core_bs, hidden, has_hidden, calls, last, prev, reset_since>>
trainerVars == <<trainer, lr, lr0, saved, tphase, batches, last_len, ret>>
buildVars == <<built>>
embVars == <<emb_weight, emb_w0, emb_cfg, emb_calls, emb_last>>

vars == <<loaderVars, coreVars, trainerVars, buildVars, embVars>>

-----------------------------------------------------------------------------
(* Bounds *)

MaxLen   == 30      \* token streams have 0..MaxLen tokens
MaxBs    == 2       \* batch sizes 1..MaxBs
MaxBptt  == 5       \* nominal window lengths 1..MaxBptt
MaxDev   == 1       \* the normal draw deviates from its mean by -MaxDev..MaxDev
MaxGens  == 2       \* generator objects alive on one loader
MaxStream == 5      \* batchify is tried on every stream of 0..MaxStream tokens
MaxTok   == 2       \* with token ids 0..MaxTok
MaxLayers == 2      \* RNNCore has 1..MaxLayers layers
MaxWidth == 3       \* forward is called on batches of width 1..MaxWidth
MaxCalls == 3       \* forward calls made on one RNNCore
MaxBatches == 3     \* mini-batches RNNTrainer sees
MaxWin   == 3       \* their window lengths are 1..MaxWin
MaxNominal == 2     \* RNNTrainer's bptt is 1..MaxNominal
MaxVocab == 2       \* the embedding table has 1..MaxVocab rows
MaxWords == 2       \* EmbeddingDropout.forward looks up 1..MaxWords ids
MaxScale == 2       \* with scale None (0) or 1..MaxScale
MaxLookups == 2     \* forward calls made on one EmbeddingDropout

(* Program constants *)

BurnIn   == 25      \* nb_007.py:21   self.bptt + 25
MinSeq   == 5       \* nb_007.py:24   max(5, ...)

-----------------------------------------------------------------------------
(* Helpers: Python / numpy semantics *)

Min(a, b) == IF a < b THEN a ELSE b
Max(a, b) == IF a > b THEN a ELSE b

\* int(x) of a float given in half units: truncation toward zero
IntOfHalves(h) == IF h >= 0 THEN h \div 2 ELSE -((-h) \div 2)

\* s[a:b] on the leading axis, with Python's clipping of out-of-range bounds
PyIndex(x, len) == IF x < 0 THEN Max(x + len, 0) ELSE Min(x, len)
PySlice(s, a, b) == SubSeq(s, PyIndex(a, Len(s)) + 1, PyIndex(b, Len(s)))

\* numpy reshape(rows, -1) of a flat array (row-major)
Reshape(s, rows) ==
    LET cols == Len(s) \div rows
    IN  [r \in 1..rows |-> [t \in 1..cols |-> s[(r - 1) * cols + t]]]

\* numpy .T of a rows x cols matrix
Transpose(m) ==
    IF Len(m) = 0 THEN <<>>
    ELSE [t \in 1..Len(m[1]) |-> [r \in 1..Len(m) |-> m[r][t]]]

\* data[::-1]
Reverse(m) == [t \in 1..Len(m) |-> m[Len(m) + 1 - t]]

\* .contiguous().view(-1): the rows one after the other
Flatten(m) ==
    IF Len(m) = 0 THEN <<>>
    ELSE LET w == Len(m[1])
         IN  [k \in 1..(Len(m) * w) |-> m[((k - 1) \div w) + 1][((k - 1) % w) + 1]]

-----------------------------------------------------------------------------
(* LanguageModelLoader *)

\* the token stream 0, 1, ..., L-1: every token names its own position
Stream(L) == [k \in 1..L |-> k - 1]

\* a flat array cut into time-major rows of b tokens: reshape(-1, b)
batchify_RowMajor(tokens, b, back) ==
    LET nb   == Len(tokens) \div b
        cut  == PySlice(tokens, 0, nb * b)
        mat  == [t \in 1..nb |-> [r \in 1..b |-> cut[(t - 1) * b + r]]]
    IN  IF back THEN Reverse(mat) ELSE mat

\* lines 32-36 (LongTensor keeps the integer token ids as they are)
batchify(tokens, b, back) ==
    LET nb   == Len(tokens) \div b
        cut  == PySlice(tokens, 0, nb * b)
        mat  == Transpose(Reshape(cut, b))
    IN  IF back THEN Reverse(mat) ELSE mat

LoaderLen == (n - 1) \div bptt

\* get_batch with the clamp of line 39 left out
get_batch_NoClamp(at, seq_len) ==
    [inp |-> PySlice(data, at, at + seq_len),
     tgt |-> Flatten(PySlice(data, at + 1, at + 1 + seq_len))]

get_batch(at, seq_len) ==
    LET sl == Min(seq_len, Len(data) - 1 - at)
    IN  [inp |-> PySlice(data, at, at + sl),
         tgt |-> Flatten(PySlice(data, at + 1, at + 1 + sl))]

Gens == 1..MaxGens

NoWindow == [g |-> 0, tick |-> 0, started |-> FALSE, at |-> 0, seq_len |-> 0, burn |-> FALSE,
             after |-> 0, inp |-> <<>>, tgt |-> <<>>]

\* __init__ (lines 12-16) on the arguments nums, bs, bptt, backwards
LoaderInit ==
    /\ lpc = "new"
    /\ lpc' = "ready"
    /\ data' = batchify(nums, bs, backwards)
    /\ first' = TRUE /\ i' = 0 /\ iter' = 0
    /\ n' = Len(batchify(nums, bs, backwards))
    /\ UNCHANGED <<nums, bs, bptt, backwards, pc, out, solo, cnt>>
    /\ UNCHANGED <<coreVars, trainerVars, buildVars, embVars>>

\* a loader about to be constructed on a stream of tokens 0..MaxTok
LoaderNew ==
    /\ lpc = "new"
    /\ \E L \in 0..MaxStream : nums \in [1..L -> 0..MaxTok]
    /\ bs \in 1..MaxBs
    /\ bptt \in 1..MaxBptt
    /\ backwards \in BOOLEAN
    /\ data = <<>> /\ first = TRUE /\ i = 0 /\ iter = 0 /\ n = 0
    /\ pc = [g \in Gens |-> "none"]
    /\ out = NoWindow
    /\ solo = 0 /\ cnt = 0

\* a loader constructed by __init__ on the stream 0, 1, ..., L-1
InitLoader ==
    /\ lpc = "ready"
    /\ \E L \in 0..MaxLen : nums = Stream(L)
    /\ bs \in 1..MaxBs
    /\ bptt \in 1..MaxBptt
    /\ backwards \in BOOLEAN
    /\ data = batchify(nums, bs, backwards)
    /\ first = TRUE /\ i = 0 /\ iter = 0
    /\ n = Len(data)
    /\ pc = [g \in Gens |-> "none"]
    /\ out = NoWindow
    /\ solo = 0 /\ cnt = 0

\* calling __iter__ makes a generator object; its body has not run yet
\* (the new generator takes the lowest free name)
Iter(g) ==
    /\ lpc = "ready"
    /\ pc[g] \in {"none", "done"}
    /\ \A h \in 1..(g - 1) : pc[h] \in {"created", "suspended"}
    /\ pc' = [pc EXCEPT ![g] = "created"]
    /\ solo' = IF solo = g THEN 0 ELSE solo
    /\ cnt' = IF solo = g THEN 0 ELSE cnt
    /\ UNCHANGED <<nums, lpc, bs, bptt, backwards, data, first, i, iter, n, out>>
    /\ UNCHANGED <<coreVars, trainerVars, buildVars, embVars>>

\* a start that spares the cursor while another generator is suspended
StartCursor_Guarded(g) == IF \E h \in Gens \ {g} : pc[h] = "suspended" THEN i ELSE 0

\* line 19: the cursor and the counter a traversal starts from
StartCursor(g) == 0
StartIter(g) == 0

\* the cursor and the counter a suspended generator continues from: the
\* loader's self.i and self.iter, which every generator of the loader shares
ResumeCursor(g) == i
ResumeIter(g) == iter

\* the burn-in branch taken at the start of every traversal
TakesBurnIn_EveryStart(f, at) == at = 0

\* line 21: the burn-in branch
TakesBurnIn(f, at) == f /\ at = 0

\* the draw without the floor of 5
DrawSeqLen_NoFloor(full, dev) ==
    LET mean2 == IF full THEN 2 * bptt ELSE bptt
    IN  IntOfHalves(mean2 + 2 * dev)

\* lines 23-24: bptt or bptt / 2., a normal draw around it, int(), max(5, .)
DrawSeqLen(full, dev) ==
    LET mean2 == IF full THEN 2 * bptt ELSE bptt
    IN  Max(MinSeq, IntOfHalves(mean2 + 2 * dev))

\* the cursor advanced by the clamped length
Advance_Clamped(at, seq_len) == at + Min(seq_len, n - 1 - at)

\* line 26: self.i += seq_len
Advance(at, seq_len) == at + seq_len

\* the loop without the cap on the number of iterations
LoopCond_NoCap(at, it) == at < n - 1

\* line 20: the loop condition
LoopCond(at, it) == at < n - 1 /\ it < LoaderLen

\* the lengths lines 23-24 can draw
Draws == {DrawSeqLen(full, dev) : full \in BOOLEAN, dev \in (-MaxDev)..MaxDev}

\* next() on generator g, drawing length drawn if it comes to a draw: run the
\* body up to the next yield or to its end
GenNext(g, drawn) ==
    /\ lpc = "ready"
    /\ pc[g] \in {"created", "suspended"}
    /\ LET fresh == pc[g] = "created"
           at    == IF fresh THEN StartCursor(g) ELSE ResumeCursor(g)
           it    == IF fresh THEN StartIter(g) ELSE ResumeIter(g)
           alone == fresh \/ solo = g
       IN  /\ solo' = IF alone THEN g ELSE 0
           /\ IF LoopCond(at, it)
              THEN LET burn    == TakesBurnIn(first, at)
                       seq_len == IF burn THEN bptt + BurnIn ELSE drawn
                       res     == get_batch(at, seq_len)
                   IN  /\ first' = IF burn THEN FALSE ELSE first
                       /\ i' = Advance(at, seq_len)
                       /\ iter' = it + 1
                       /\ pc' = [pc EXCEPT ![g] = "suspended"]
                       /\ cnt' = IF fresh THEN 1 ELSE IF alone THEN cnt + 1 ELSE 0
                       /\ out' = [g |-> g, tick |-> 1 - out.tick, started |-> fresh, at |-> at,
                                  seq_len |-> seq_len, burn |-> burn,
                                  after |-> Advance(at, seq_len),
                                  inp |-> res.inp, tgt |-> res.tgt]
              ELSE /\ i' = at /\ iter' = it
                   /\ pc' = [pc EXCEPT ![g] = "done"]
                   /\ cnt' = IF fresh THEN 0 ELSE IF alone THEN cnt ELSE 0
                   /\ UNCHANGED <<first, out>>
    /\ UNCHANGED <<nums, lpc, bs, bptt, backwards, data, n>>
    /\ UNCHANGED <<coreVars, trainerVars, buildVars, embVars>>

-----------------------------------------------------------------------------
(* Properties of the window scheduler *)

\* the step in which next() on generator g yields a window
Emitted(g) == out'.tick # out.tick /\ out'.g = g

\* no generator other than g is in the middle of a traversal
Alone(g) == \A h \in Gens \ {g} : pc[h] \in {"none", "done"}

\* len(self), read as 0 where the batch matrix is too short for any window
WindowCap == Max(0, LoaderLen)

\* C1 as claimed: a traversal pulled to exhaustion, undisturbed by any other
\* traversal of the loader, has yielded exactly len(self) windows.
C1_ExactCount ==
    (solo # 0 /\ pc[solo] = "done") => cnt = WindowCap

\* C1 as amended: an undisturbed traversal never yields more than len(self)
\* windows, and one pulled to exhaustion has yielded len(self) windows unless
\* the cursor reached the end of the batch matrix (i >= n - 1) first.
C1_AtMostLen ==
    solo # 0 =>
        /\ cnt <= WindowCap
        /\ pc[solo] = "done" => (cnt = WindowCap \/ i >= n - 1)

\* an exhausted undisturbed traversal of at least two windows, fewer than len(self)
C1_Witness ==
    solo # 0 /\ pc[solo] = "done" /\ cnt >= 2 /\ cnt < WindowCap

\* C2: every yielded window has input = batch[at : at+s] and target = the
\* flattening of batch[at+1 : at+1+s], with s = min(seq_len, n-1-at) time
\* steps in both, so the target is the input shifted by one step and neither
\* slice reaches past the end of the batch matrix.
C2_WindowShape ==
    out.g # 0 =>
        LET s == Len(out.inp)
        IN  /\ s = Min(out.seq_len, n - 1 - out.at)
            /\ s >= 1 /\ s <= n - 1 - out.at /\ out.at + 1 + s <= n
            /\ \A t \in 1..s : out.inp[t] = data[out.at + t]
            /\ Len(out.tgt) = s * bs
            /\ \A t \in 1..s, r \in 1..bs :
                   out.tgt[(t - 1) * bs + r] = data[out.at + 1 + t][r]
            /\ \A t \in 1..(s - 1), r \in 1..bs :
                   out.tgt[(t - 1) * bs + r] = out.inp[t + 1][r]

\* a window of two columns and several steps that get_batch had to clamp
C2_Witness ==
    /\ out.g # 0 /\ bs = 2 /\ out.at > 0
    /\ Len(out.inp) >= 2 /\ Len(out.inp) < out.seq_len

\* C3 as claimed: with no other traversal active, a yielded window has the
\* burn-in length bptt + 25 exactly when it is the first window of its traversal.
C3_EveryTraversal ==
    (out.g # 0 /\ Alone(out.g)) =>
        (out.started <=> out.seq_len = bptt + BurnIn)

\* C3 as amended: a yielded window takes the burn-in length bptt + 25 (clamped
\* to n - 1) exactly when it is the first window the loader yields since its
\* construction; restarting resets the cursor and the counter but not the
\* first flag, so a later traversal begins with a randomly drawn length.
C3_OnlyFirstEver ==
    [][\A g \in Gens : Emitted(g) =>
          /\ out'.burn <=> out.g = 0
          /\ out'.burn <=> first
          /\ ~first'
          /\ out'.burn => /\ out'.started /\ out'.at = 0
                          /\ out'.seq_len = bptt + BurnIn
                          /\ Len(out'.inp) = Min(bptt + BurnIn, n - 1)
          /\ ~out'.burn => \E full \in BOOLEAN, dev \in (-MaxDev)..MaxDev :
                               out'.seq_len = Max(MinSeq, IntOfHalves(
                                   (IF full THEN 2 * bptt ELSE bptt) + 2 * dev))]_vars

\* the first window of a later traversal, not of burn-in length
C3_Witness ==
    out.g # 0 /\ out.started /\ ~out.burn /\ Alone(out.g) /\ out.seq_len # bptt + BurnIn

\* C4 as claimed: every yielded window other than the burn-in window has at
\* least 5 time steps.
C4_AtLeastFive ==
    (out.g # 0 /\ ~out.burn) => Len(out.inp) >= MinSeq

\* C4 as amended: the length drawn for a window other than the burn-in window
\* is at least 5, and the window has min(drawn length, n - 1 - cursor) time
\* steps: at least 5 unless fewer than 5 steps remain before the last row.
C4_AtLeastFiveOrRest ==
    (out.g # 0 /\ ~out.burn) =>
        /\ out.seq_len >= MinSeq
        /\ Len(out.inp) = Min(out.seq_len, n - 1 - out.at)
        /\ Len(out.inp) >= Min(MinSeq, n - 1 - out.at)
        /\ Len(out.inp) >= 1

\* a drawn window shorter than 5 steps
C4_Witness ==
    out.g # 0 /\ ~out.burn /\ out.at > 0 /\ Len(out.inp) < MinSeq

\* C5 as claimed: the cursor stays within 0..n-1 and a yielded window leaves
\* it advanced by the number of time steps of the window's input.
C5_CursorClamped ==
    /\ 0 <= i /\ i <= Max(0, n - 1)
    /\ out.g # 0 => out.after = out.at + Len(out.inp)

\* C5 as amended: the cursor is never negative and a window is yielded only
\* from a cursor below n - 1; the cursor then advances by the drawn length,
\* not by the clamped one, so it exceeds n - 1 exactly when the window just
\* yielded was clamped by get_batch, and by the steps the clamp removed.
C5_CursorAdvance ==
    /\ 0 <= i
    /\ out.g # 0 =>
          /\ out.at >= 0 /\ out.at < n - 1
          /\ out.after = out.at + out.seq_len
          /\ out.after - (out.at + Len(out.inp)) = Max(0, out.after - (n - 1))
    /\ i > Max(0, n - 1) => (out.g # 0 /\ i = out.after)

\* the cursor past the last row after a clamped window
C5_Witness ==
    out.g # 0 /\ ~out.burn /\ i > n - 1 /\ i = out.after /\ Len(out.inp) < out.seq_len

\* C8: the first next() of a traversal resets cursor and counter to 0 whatever
\* the other generators of the loader are doing, and a suspended generator
\* continues from the loader's shared cursor and counter as they stand.
C8_SharedCursor ==
    [][\A g \in Gens :
          /\ Emitted(g) =>
                /\ out'.g = g
                /\ out'.at = (IF pc[g] = "created" THEN 0 ELSE i)
                /\ iter' = (IF pc[g] = "created" THEN 1 ELSE iter + 1)
                /\ i' = out'.at + out'.seq_len
          /\ (pc[g] = "created" /\ pc'[g] = "done") => (i' = 0 /\ iter' = 0)
          /\ (pc[g] = "suspended" /\ pc'[g] = "done") => (i' = i /\ iter' = iter)]_vars

\* a generator disturbed by another traversal yields its next window from the
\* cursor the other traversal left, while that traversal is still suspended
C8_Witness ==
    /\ out.g # 0 /\ ~out.started /\ solo = 0
    /\ \E h \in Gens \ {out.g} : pc[h] = "suspended"
    /\ out.at < MinSeq + MinSeq


\* C10: batchify yields floor(L/bs) rows of bs columns; forwards, row t of
\* column r holds token r * floor(L/bs) + t of the stream (counting from 0), so
\* each column is a contiguous run of the stream in order, the columns do not
\* overlap and only the last L mod bs tokens are left out; backwards, the same
\* matrix with its rows in reverse order.
C10_Batchify ==
    lpc = "ready" =>
        LET L  == Len(nums)
            nb == L \div bs
            At(t, r) == (r - 1) * nb + (IF backwards THEN nb + 1 - t ELSE t)
        IN  /\ Len(data) = nb /\ n = nb
            /\ \A t \in 1..nb : Len(data[t]) = bs
            /\ \A t \in 1..nb, r \in 1..bs : data[t][r] = nums[At(t, r)]
            /\ {At(t, r) : t \in 1..nb, r \in 1..bs} = 1..(L - (L % bs))
            /\ Cardinality({<<t, r>> : t \in 1..nb, r \in 1..bs}) = L - (L % bs)

\* a reversed matrix of two columns and two rows built from five tokens, the
\* fifth dropped, the columns different
C10_Witness ==
    /\ lpc = "ready" /\ backwards /\ bs = 2 /\ Len(nums) = 5 /\ Len(data) = 2
    /\ data[1] = <<nums[2], nums[4]>> /\ data[2] = <<nums[1], nums[3]>>
    /\ nums[1] # nums[2] /\ nums[2] # nums[3] /\ nums[3] # nums[4]

-----------------------------------------------------------------------------
(* RNNCore *)

EmbSizes == {2, 4}
HidSizes == {6}

\* line 155: the width of layer l's state (l counts from 0)
LayerWidth(l) ==
    (IF l # core.n_layers - 1 THEN core.n_hid ELSE core.emb_sz) \div core.ndir

Tensor(b, l, val, att) ==
    [ndir |-> core.ndir, bs |-> b, nh |-> LayerWidth(l), val |-> val, att |-> att]

\* lines 154-156: a zero tensor of shape (ndir, self.bs, nh)
one_hidden(l, b) == Tensor(b, l, <<0, 0, 0>>, FALSE)

\* lines 161-162: one tensor per layer for QRNN, a pair per layer for LSTM
ZeroHidden(b) ==
    [k \in 1..core.n_layers |->
        IF core.qrnn THEN <<one_hidden(k - 1, b)>>
        ELSE <<one_hidden(k - 1, b), one_hidden(k - 1, b)>>]

\* line 146: the state layer l hands back in forward call c on a batch of
\* width b; it carries the call's gradient history
CellState(c, l, b) ==
    IF core.qrnn THEN <<Tensor(b, l, <<c, l, 1>>, TRUE)>>
    ELSE <<Tensor(b, l, <<c, l, 1>>, TRUE), Tensor(b, l, <<c, l, 2>>, TRUE)>>

\* lines 103-105: every tensor detached from its history
repackage_var(h) ==
    [k \in 1..Len(h) |-> [j \in 1..Len(h[k]) |-> [h[k][j] EXCEPT !.att = FALSE]]]

NoCall == [called |-> FALSE, raised |-> FALSE, b |-> 0, bs_before |-> 0,
           consumed |-> <<>>, carried |-> <<>>, after_reset |-> FALSE]

\* the object __init__ (lines 112-136) leaves: bs = 1 and no hidden attribute
InitCore ==
    /\ \E nl \in 1..MaxLayers, q \in BOOLEAN, bidir \in BOOLEAN,
          e \in EmbSizes, h \in HidSizes :
          core = [n_layers |-> nl, qrnn |-> q, ndir |-> IF bidir THEN 2 ELSE 1,
                  emb_sz |-> e, n_hid |-> h]
    /\ core_bs = 1
    /\ hidden = <<>> /\ has_hidden = FALSE
    /\ calls = 0 /\ last = NoCall /\ prev = <<>> /\ reset_since = FALSE

\* lines 138-152 on an input of batch width b
Forward(b) ==
    /\ calls < MaxCalls
    /\ calls' = calls + 1
    /\ LET mismatch == b # core_bs
           hid1     == IF mismatch THEN ZeroHidden(b) ELSE hidden
           has1     == mismatch \/ has_hidden
           call     == [called |-> TRUE, raised |-> ~has1, b |-> b,
                        bs_before |-> core_bs,
                        consumed |-> IF has1 THEN hid1 ELSE <<>>,
                        carried |-> prev, after_reset |-> reset_since]
       IN  /\ core_bs' = b
           /\ last' = call
           /\ IF has1
              THEN \* every layer reads self.hidden[l] and hands back a new state
                   /\ hidden' = repackage_var(
                          [k \in 1..core.n_layers |-> CellState(calls + 1, k - 1, b)])
                   /\ has_hidden' = TRUE
                   /\ prev' = hidden'
                   /\ reset_since' = FALSE
              ELSE \* line 146 reads an attribute that does not exist: AttributeError
                   /\ UNCHANGED <<hidden, has_hidden, prev, reset_since>>
    /\ UNCHANGED core
    /\ UNCHANGED <<loaderVars, trainerVars, buildVars, embVars>>

\* lines 158-162
Reset ==
    /\ hidden' = ZeroHidden(core_bs)
    /\ has_hidden' = TRUE
    /\ reset_since' = TRUE
    /\ UNCHANGED <<core, core_bs, calls, last, prev>>
    /\ UNCHANGED <<loaderVars, trainerVars, buildVars, embVars>>

\* C6 as claimed: a forward call on width b that finds another bs stored sets
\* bs to b and feeds its layers fresh zero state of width b; one that finds
\* bs = b, with no reset() since the previous forward call, feeds layer l the
\* state layer l produced in that call; either way n_layers states of width b
\* are stored afterwards.
C6_ForwardState ==
    last.called =>
        /\ ~last.raised
        /\ core_bs = last.b
        /\ Len(last.consumed) = core.n_layers
        /\ last.b # last.bs_before => last.consumed = ZeroHidden(last.b)
        /\ (last.b = last.bs_before /\ ~last.after_reset) =>
               last.consumed = last.carried
        /\ has_hidden /\ Len(hidden) = core.n_layers
        /\ \A k \in 1..Len(hidden) : \A j \in 1..Len(hidden[k]) :
               hidden[k][j].bs = last.b

\* C11 as claimed: whatever forward and reset calls follow the construction,
\* a forward call on width b finds self.hidden allocated when its first layer
\* reads it: n_layers entries, every tensor of batch width b.
C11_HiddenAllocated ==
    last.called =>
        /\ ~last.raised
        /\ Len(last.consumed) = core.n_layers
        /\ \A k \in 1..Len(last.consumed) : \A j \in 1..Len(last.consumed[k]) :
               last.consumed[k][j].bs = last.b

-----------------------------------------------------------------------------
(* RNNTrainer *)

RECURSIVE GCD(_, _)
GCD(a, b) == IF b = 0 THEN a ELSE GCD(b, a % b)

\* learning rates are fractions <<numerator, denominator>> in lowest terms
Frac(a, b) == LET g == GCD(a, b) IN <<a \div g, b \div g>>

BaseRates == {Frac(1, 1), Frac(3, 10)}

\* line 219: lr * (last_input.size(0) / self.bptt)
Scaled(rate, steps, nominal) == Frac(rate[1] * steps, rate[2] * nominal)

NoOutputs == [steps |-> 0, ar |-> 0, tar |-> 0]

InitTrainer ==
    /\ \E bp \in 1..MaxNominal, al \in 0..1, be \in 0..1, adj \in BOOLEAN :
          trainer = [bptt |-> bp, alpha |-> al, beta |-> be, adjust |-> adj]
    /\ lr0 \in BaseRates
    /\ lr = lr0
    /\ saved = NoOutputs
    /\ tphase = "forward"
    /\ batches = 0 /\ last_len = 0 /\ ret = 0

\* lines 212-215 on the output of a window of steps time steps, whose last
\* layer has mean squared activation ar and mean squared step-to-step change tar
on_loss_begin(steps, ar, tar) ==
    /\ tphase = "forward"
    /\ batches < MaxBatches
    /\ saved' = [steps |-> steps, ar |-> ar, tar |-> IF steps > 1 THEN tar ELSE 0]
    /\ tphase' = "loss"
    /\ UNCHANGED <<trainer, lr, lr0, batches, last_len, ret>>
    /\ UNCHANGED <<loaderVars, coreVars, buildVars, embVars>>

\* lines 217-225 on the loss last_loss of the window whose output was saved
on_backward_begin(last_loss) ==
    /\ tphase = "loss"
    /\ lr' = IF trainer.adjust THEN Scaled(lr, saved.steps, trainer.bptt) ELSE lr
    /\ ret' = last_loss
              + (IF trainer.alpha # 0 THEN trainer.alpha * saved.ar ELSE 0)
              + (IF trainer.beta # 0 /\ saved.steps > 1
                 THEN trainer.beta * saved.tar ELSE 0)
    /\ batches' = batches + 1
    /\ last_len' = saved.steps
    /\ tphase' = "forward"
    /\ UNCHANGED <<trainer, lr0, saved>>
    /\ UNCHANGED <<loaderVars, coreVars, buildVars, embVars>>

\* C7 as claimed: with adjust on, the learning rate in effect for a batch of
\* window length s is base_lr * s / bptt, whatever the batches before it were.
C7_Temporary ==
    (trainer.adjust /\ batches >= 1 /\ tphase = "forward") =>
        lr = Scaled(lr0, last_len, trainer.bptt)

-----------------------------------------------------------------------------
(* Constructors *)

\* dropout probabilities in percent, inside and outside [0, 1)
Probabilities == {-50, 0, 50, 100, 150}

NotBuilt == [cls |-> "none", raised |-> "", ps |-> <<>>]

\* lines 47-49: RNNDropout stores p
RNNDropout(p) == [cls |-> "RNNDropout", raised |-> "", ps |-> <<p>>]

\* lines 87-91: EmbeddingDropout stores embed_p
EmbeddingDropout(embed_p) == [cls |-> "EmbeddingDropout", raised |-> "", ps |-> <<embed_p>>]

\* lines 61-67: WeightDropout stores weight_p and copies the named weight of
\* the wrapped module, which getattr must find
WeightDropout(weight_p, has_layer) ==
    IF has_layer THEN [cls |-> "WeightDropout", raised |-> "", ps |-> <<weight_p>>]
    ELSE [cls |-> "WeightDropout", raised |-> "AttributeError", ps |-> <<>>]

\* lines 112-136: the dropout modules RNNCore builds, in order of construction;
\* the QRNN layers need the qrnn package
RNNCoreNew(qrnn, has_qrnn, hidden_p, input_p, embed_p, weight_p) ==
    IF qrnn /\ ~has_qrnn
    THEN [cls |-> "RNNCore", raised |-> "ImportError", ps |-> <<>>]
    ELSE [cls |-> "RNNCore", raised |-> "",
          ps |-> EmbeddingDropout(embed_p).ps
                 \o (IF weight_p # 0 THEN WeightDropout(weight_p, TRUE).ps ELSE <<>>)
                 \o RNNDropout(input_p).ps \o RNNDropout(hidden_p).ps]

\* lines 169-175: LinearDecoder builds RNNDropout(output_p)
LinearDecoder(output_p) == [cls |-> "LinearDecoder", raised |-> "", ps |-> RNNDropout(output_p).ps]

\* lines 188-194
get_language_model(qrnn, has_qrnn, output_p, hidden_p, input_p, embed_p, weight_p) ==
    LET enc == RNNCoreNew(qrnn, has_qrnn, hidden_p, input_p, embed_p, weight_p)
    IN  IF enc.raised # "" THEN [enc EXCEPT !.cls = "SequentialRNN"]
        ELSE [cls |-> "SequentialRNN", raised |-> "",
              ps |-> enc.ps \o LinearDecoder(output_p).ps]

InitBuild == built = NotBuilt

\* each behaviour makes one constructor call, on any arguments
NewRNNDropout ==
    /\ built = NotBuilt
    /\ \E p \in Probabilities : built' = RNNDropout(p)
    /\ UNCHANGED <<loaderVars, coreVars, trainerVars, embVars>>

NewEmbeddingDropout ==
    /\ built = NotBuilt
    /\ \E p \in Probabilities : built' = EmbeddingDropout(p)
    /\ UNCHANGED <<loaderVars, coreVars, trainerVars, embVars>>

NewWeightDropout ==
    /\ built = NotBuilt
    /\ \E p \in Probabilities, has_layer \in BOOLEAN : built' = WeightDropout(p, has_layer)
    /\ UNCHANGED <<loaderVars, coreVars, trainerVars, embVars>>

NewRNNCore ==
    /\ built = NotBuilt
    /\ \E q \in BOOLEAN, hq \in BOOLEAN, hp \in Probabilities, ip \in Probabilities,
          ep \in Probabilities, wp \in Probabilities :
          built' = RNNCoreNew(q, hq, hp, ip, ep, wp)
    /\ UNCHANGED <<loaderVars, coreVars, trainerVars, embVars>>

NewLanguageModel ==
    /\ built = NotBuilt
    /\ \E q \in BOOLEAN, hq \in BOOLEAN, op \in Probabilities, hp \in Probabilities,
          ip \in Probabilities, ep \in Probabilities, wp \in Probabilities :
          built' = get_language_model(q, hq, op, hp, ip, ep, wp)
    /\ UNCHANGED <<loaderVars, coreVars, trainerVars, embVars>>

\* C9 as claimed: a constructor that returns an object was given only dropout
\* probabilities in [0, 1).
C9_RejectsBadP ==
    (built.cls # "none" /\ built.raised = "") =>
        \A k \in 1..Len(built.ps) : built.ps[k] >= 0 /\ built.ps[k] < 100

-----------------------------------------------------------------------------
(* EmbeddingDropout.forward *)

EmbedProbs == {0, 50}
EmbedValues == {1, 3}

\* lines 42-44: the masks bernoulli_(1-p).div_(1-p) can give for sz rows, each
\* entry 0 or 1/(1-p)
dropout_mask(sz, p) == [1..sz -> {0, 100 \div (100 - p)}]

NoLookup == [called |-> FALSE, raised |-> FALSE, dropping |-> FALSE, scale |-> 0,
             words |-> <<>>, res |-> <<>>]

\* lines 87-91 around a table of any size and weight, in either mode
InitEmbed ==
    /\ \E v \in 1..MaxVocab : emb_weight \in [1..v -> EmbedValues]
    /\ emb_w0 = emb_weight
    /\ \E p \in EmbedProbs, tr \in BOOLEAN : emb_cfg = [embed_p |-> p, training |-> tr]
    /\ emb_calls = 0
    /\ emb_last = NoLookup

\* lines 93-101 on the ids words and scale (0: None), with mask the dropout
\* mask it draws if it drops, and grad telling whether autograd is recording
\* (an in-place operation on a parameter is an error then)
EmbeddingForward(words, scale, mask, grad) ==
    /\ emb_calls < MaxLookups
    /\ emb_calls' = emb_calls + 1
    /\ LET dropping == emb_cfg.training /\ emb_cfg.embed_p # 0
           \* line 97 makes a new tensor; line 98 is the table's weight itself
           masked   == IF dropping
                       THEN [v \in 1..Len(emb_weight) |-> emb_weight[v] * mask[v]]
                       ELSE emb_weight
           \* line 99: mul_ works in place on whatever masked_embed is
           inplace  == scale # 0 /\ ~dropping
           raised   == inplace /\ grad
           scaled   == IF scale # 0 THEN [v \in 1..Len(masked) |-> masked[v] * scale]
                       ELSE masked
       IN  /\ emb_weight' = IF inplace /\ ~raised THEN scaled ELSE emb_weight
           /\ emb_last' = [called |-> TRUE, raised |-> raised, dropping |-> dropping,
                           scale |-> scale, words |-> words,
                           res |-> IF raised THEN <<>>
                                   ELSE [k \in 1..Len(words) |-> scaled[words[k]]]]
    /\ UNCHANGED <<emb_w0, emb_cfg>>
    /\ UNCHANGED <<loaderVars, coreVars, trainerVars, buildVars>>

\* C12 as claimed: forward never changes the wrapped table's weight, so a
\* call that does not drop (outside training, or embed_p = 0) and returns
\* gives the rows of the table as constructed, times the scale if one is given:
\* the same result at every call with that scale.
C12_WeightUntouched ==
    /\ emb_weight = emb_w0
    /\ (emb_last.called /\ ~emb_last.dropping /\ ~emb_last.raised) =>
           emb_last.res = [k \in 1..Len(emb_last.words) |->
                              emb_w0[emb_last.words[k]]
                              * (IF emb_last.scale = 0 THEN 1 ELSE emb_last.scale)]

-----------------------------------------------------------------------------
(* Specifications *)

IdleLoader ==
    /\ nums = <<>> /\ lpc = "none" /\ bs = 1 /\ bptt = 1 /\ backwards = FALSE
    /\ data = <<>> /\ first = TRUE /\ i = 0 /\ iter = 0 /\ n = 0
    /\ pc = [g \in Gens |-> "none"] /\ out = NoWindow /\ solo = 0 /\ cnt = 0

IdleCore ==
    /\ core = [n_layers |-> 0, qrnn |-> FALSE, ndir |-> 1, emb_sz |-> 0, n_hid |-> 0]
    /\ core_bs = 0 /\ hidden = <<>> /\ has_hidden = FALSE
    /\ calls = 0 /\ last = NoCall /\ prev = <<>> /\ reset_since = FALSE

IdleEmbed ==
    /\ emb_weight = <<>> /\ emb_w0 = <<>>
    /\ emb_cfg = [embed_p |-> 0, training |-> FALSE]
    /\ emb_calls = 0 /\ emb_last = NoLookup

IdleTrainer ==
    /\ trainer = [bptt |-> 0, alpha |-> 0, beta |-> 0, adjust |-> FALSE]
    /\ lr = <<0, 1>> /\ lr0 = <<0, 1>> /\ saved = NoOutputs
    /\ tphase = "none" /\ batches = 0 /\ last_len = 0 /\ ret = 0

\* traversals of a constructed LanguageModelLoader
Init == InitLoader /\ IdleCore /\ IdleTrainer /\ InitBuild /\ IdleEmbed

Next ==
    \/ \E g \in Gens : Iter(g)
    \/ \E g \in Gens, drawn \in Draws : GenNext(g, drawn)

Spec == Init /\ [][Next]_vars

\* the construction of a LanguageModelLoader
InitBatchify == LoaderNew /\ IdleCore /\ IdleTrainer /\ InitBuild /\ IdleEmbed

NextBatchify == LoaderInit

SpecBatchify == InitBatchify /\ [][NextBatchify]_vars

\* forward and reset calls on a constructed RNNCore
InitRNN == IdleLoader /\ InitCore /\ IdleTrainer /\ InitBuild /\ IdleEmbed

NextRNN ==
    \/ \E b \in 1..MaxWidth : Forward(b)
    \/ Reset

SpecRNN == InitRNN /\ [][NextRNN]_vars

\* the callbacks of RNNTrainer over the mini-batches of a training run
InitTraining == IdleLoader /\ IdleCore /\ InitTrainer /\ InitBuild /\ IdleEmbed

NextTraining ==
    \/ \E steps \in 1..MaxWin, ar \in 0..1, tar \in 0..1 : on_loss_begin(steps, ar, tar)
    \/ \E last_loss \in 0..1 : on_backward_begin(last_loss)

SpecTraining == InitTraining /\ [][NextTraining]_vars

\* constructor calls
InitConstruct == IdleLoader /\ IdleCore /\ IdleTrainer /\ InitBuild /\ IdleEmbed

NextConstruct ==
    \/ NewRNNDropout
    \/ NewEmbeddingDropout
    \/ NewWeightDropout
    \/ NewRNNCore
    \/ NewLanguageModel

SpecConstruct == InitConstruct /\ [][NextConstruct]_vars

\* forward calls on a constructed EmbeddingDropout
InitEmbedding == IdleLoader /\ IdleCore /\ IdleTrainer /\ InitBuild /\ InitEmbed

NextEmbedding ==
    \E nw \in 1..MaxWords, scale \in 0..MaxScale, grad \in BOOLEAN :
        \E words \in [1..nw -> 1..Len(emb_weight)],
           mask \in dropout_mask(Len(emb_weight), emb_cfg.embed_p) :
            EmbeddingForward(words, scale, mask, grad)

SpecEmbedding == InitEmbedding /\ [][NextEmbedding]_vars

====
